---- MODULE Spec2Model ----
(***************************************************************************)
(* Model of the two Grafana provisioning utilities of LiveEventService:    *)
(*   - grafana_provisioner.py : the CloudFormation custom-resource handler *)
(*   - import_dashboard.py    : the standalone readiness waiter            *)
(* Strings whose content the code inspects (DASHBOARD_URIS, locators) are  *)
(* sequences of one-character strings; opaque texts are TLA+ strings.      *)
(***************************************************************************)
EXTENDS Integers, Sequences, FiniteSets, TLC

None == "<None>"

\* ------------------------------------------------------------------------
\* Python string primitives used by the handler
\* ------------------------------------------------------------------------

\* str.startswith(prefix)
StartsWith(s, p) ==
    /\ Len(s) >= Len(p)
    /\ SubSeq(s, 1, Len(p)) = p

\* index of the first occurrence of sep in s, 0 when absent (str.find + 1)
FindFirst(s, sep) ==
    LET hits == {i \in 1..(Len(s) - Len(sep) + 1) : SubSeq(s, i, i + Len(sep) - 1) = sep}
    IN  IF hits = {} THEN 0 ELSE CHOOSE i \in hits : \A j \in hits : i <= j

\* str.partition(sep): <<head, sep, tail>>, or <<s, "", "">> when sep is absent
Partition(s, sep) ==
    LET i == FindFirst(s, sep)
    IN  IF i = 0 THEN << s, << >>, << >> >>
        ELSE << SubSeq(s, 1, i - 1), sep, SubSeq(s, i + Len(sep), Len(s)) >>

\* str.split(sep): always at least one field
RECURSIVE Split(_, _)
Split(s, sep) ==
    LET i == FindFirst(s, sep)
    IN  IF i = 0 THEN << s >>
        ELSE << SubSeq(s, 1, i - 1) >> \o Split(SubSeq(s, i + Len(sep), Len(s)), sep)

Whitespace == {" "}

RECURSIVE LStrip(_)
LStrip(s) ==
    IF s # << >> /\ Head(s) \in Whitespace THEN LStrip(Tail(s)) ELSE s

RECURSIVE RStrip(_)
RStrip(s) ==
    IF s # << >> /\ s[Len(s)] \in Whitespace THEN RStrip(SubSeq(s, 1, Len(s) - 1)) ELSE s

\* str.strip()
Strip(s) == RStrip(LStrip(s))

\* filter(None, xs): keeps the truthy (non-empty) strings, in order
RECURSIVE FilterNone(_)
FilterNone(xs) ==
    IF xs = << >> THEN << >>
    ELSE IF Head(xs) = << >> THEN FilterNone(Tail(xs))
         ELSE << Head(xs) >> \o FilterNone(Tail(xs))

C_COMMA == << "," >>
C_SLASH == << "/" >>
S3_SCHEME == << "s", "3", ":", "/", "/" >>

\* filter(None, [u.strip() for u in s3_uris.split(',')])
DashboardUris(s3_uris) ==
    FilterNone([k \in 1..Len(Split(s3_uris, C_COMMA)) |-> Strip(Split(s3_uris, C_COMMA)[k])])

\* variant of SkipsLocator that forgets the scheme test
SkipsLocatorEmptyOnly(s3_uri) == s3_uri = << >>

\* get_dashboard_json: the guard that returns None without touching S3
SkipsLocator(s3_uri) ==
    s3_uri = << >> \/ ~StartsWith(s3_uri, S3_SCHEME)

\* get_dashboard_json: Bucket and Key handed to s3.get_object
LocatorBucket(s3_uri) == Partition(Partition(s3_uri, S3_SCHEME)[3], C_SLASH)[1]
LocatorKey(s3_uri) == Partition(Partition(s3_uri, S3_SCHEME)[3], C_SLASH)[3]

\* ------------------------------------------------------------------------
\* Inputs of the handler
\* ------------------------------------------------------------------------

U_A == S3_SCHEME \o << "b", "/", "a" >>
U_C == S3_SCHEME \o << "b", "/", "c" >>
U_NOKEY == S3_SCHEME \o << "b" >>
U_HTTP == << "h", "t", "t", "p", ":", "/", "/", "x" >>
U_ONESLASH == << "s", "3", ":", "/", "b" >>

\* values of the DASHBOARD_URIS environment variable
DashboardUriInputs ==
    { << >>,
      U_A,
      U_A \o << ",", " ", "," >> \o U_C,
      U_C \o C_COMMA \o U_A,
      << " " >> \o U_HTTP \o << " ", "," >> \o U_A,
      U_ONESLASH \o C_COMMA \o U_C,
      U_NOKEY \o C_COMMA \o U_A }

\* os.environ as the handler reads it: the first required key that is
\* missing (None when all four are set) and DASHBOARD_URIS ('' when unset)
Environments ==
    [missing : {None}, DASHBOARD_URIS : DashboardUriInputs]
        \cup [missing : {"AWS_REGION"}, DASHBOARD_URIS : {U_A}]

CallbackUrl == "https://cloudformation/callback"

\* lifecycle events; None stands for an absent key
Events == [RequestType : {"Create", "Update", "Delete", None},
           ResponseURL : {CallbackUrl, None}]

\* Python truthiness of an optional text
Falsy(x) == x \in {None, ""}

\* HTTP exchanges: a status code, or 0 when urlopen fails without a response
NoResponse == 0
HttpResponses == {200, 400, 401, 404, 500, NoResponse}

\* urlopen raises (HTTPError for an error status, URLError without response)
UrlopenRaises(r) == r = NoResponse \/ r >= 400

\* isinstance(e, urllib.error.HTTPError)
IsHTTPError(r) == r >= 400

\* str(e) of the exception urlopen raises
UrlopenMessage(r) ==
    CASE r = 400 -> "HTTP Error 400: Bad Request"
      [] r = 401 -> "HTTP Error 401: Unauthorized"
      [] r = 404 -> "HTTP Error 404: Not Found"
      [] r = 409 -> "HTTP Error 409: Conflict"
      [] r = 500 -> "HTTP Error 500: Internal Server Error"
      [] OTHER   -> "<urlopen error timed out>"

\* str(KeyError(k))
KeyErrorMessage(k) == IF k = "AWS_REGION" THEN "'AWS_REGION'" ELSE "'?'"

\* messages of the errors create_workspace_api_key can raise
ApiKeyErrors == {"AccessDeniedException", ""}
\* message of the error s3.get_object raises
GetObjectError == "NoSuchKey"
\* message of the error json.loads raises
JsonError == "Expecting value"

\* bodies an S3 object can decode to: empty, a JSON document, other text
EmptyBody == ""
JsonBody == "{\"title\":\"d\"}"
TextBody == "not json"
ObjectBodies == {EmptyBody, JsonBody, TextBody}

\* json.loads(dashboard_json) succeeds
JsonLoads(b) == b = JsonBody

\* ------------------------------------------------------------------------
\* send_cfn_response
\* ------------------------------------------------------------------------

LogStreamName == "log-stream"
DefaultReason == "See the details in CloudWatch Log Stream: log-stream"

\* variant of ReasonField that drops the reason it is given
ReasonFieldDefaultOnly(reason) == DefaultReason

\* 'Reason': reason or f'See the details ...'
ReasonField(reason) == IF Falsy(reason) THEN DefaultReason ELSE reason

\* 'Data': data or {}
DataField(data) == IF data = None THEN "{}" ELSE data

\* send_cfn_response returns before building a request
CfnResponseSkipped(ev) == Falsy(ev.ResponseURL)

\* the PUT request send_cfn_response issues, with the answer it got
CfnRequest(ev, status, data, reason, answer) ==
    [url |-> ev.ResponseURL, Status |-> status, Reason |-> ReasonField(reason),
     Data |-> DataField(data), answer |-> answer]

\* ------------------------------------------------------------------------
\* ensure_prom_datasource
\* ------------------------------------------------------------------------

\* variant of FallbackCodes that does not treat "not found" as a fallback
FallbackCodesBadRequestOnly == {400}

\* e.code in (404, 400): the PUT failure that falls through to the POST
FallbackCodes == {404, 400}

\* variant of FallsBackToCreate that swallows every HTTP error (no re-raise)
FallsBackOnAnyHTTPError(r) == IsHTTPError(r)

\* the except clause swallows the failed PUT and the create POST follows
FallsBackToCreate(r) == IsHTTPError(r) /\ r \in FallbackCodes

\* ------------------------------------------------------------------------
\* State
\* ------------------------------------------------------------------------

VARIABLES
    event,      \* handler: the lifecycle event
    env,        \* handler: os.environ
    pc,         \* handler: position in handler()
    uris,       \* handler: the list the for loop iterates over
    idx,        \* handler: 1-based position of the loop in uris
    body,       \* handler: body returned by get_dashboard_json
    exc,        \* handler: str(e) of the exception in flight, or None
    raises,     \* handler: exceptions raised so far, in order
    calls,      \* handler: backend calls issued so far, in order
    callbacks,  \* handler: callback PUT requests issued so far, in order
    result,     \* handler: "running", "returned" or "raised"
    dsCount,    \* upsert: data sources with uid 'prom' in the backend
    dsInitial,  \* upsert: dsCount before the first call
    upc,        \* upsert: position in ensure_prom_datasource
    ureqs,      \* upsert: requests of the call in progress
    ulog,       \* upsert: finished calls, in order
    wTimeout,   \* waiter: timeout_seconds
    wNow,       \* waiter: time.time(), seconds since the call started
    wDeadline,  \* waiter: deadline
    wpc,        \* waiter: position in wait_for_grafana_ready
    wLog,       \* waiter: health-check answers observed, in order
    wResult     \* waiter: "running", "returned" or "TimeoutError"

hvars == << event, env, pc, uris, idx, body, exc, raises, calls, callbacks, result >>
uvars == << dsCount, dsInitial, upc, ureqs, ulog >>
wvars == << wTimeout, wNow, wDeadline, wpc, wLog, wResult >>
vars == << hvars, uvars, wvars >>

HandlerOff ==
    /\ event = [RequestType |-> None, ResponseURL |-> None]
    /\ env = [missing |-> None, DASHBOARD_URIS |-> << >>]
    /\ pc = "off" /\ uris = << >> /\ idx = 1 /\ body = None /\ exc = None
    /\ raises = << >> /\ calls = << >> /\ callbacks = << >> /\ result = "running"

UpsertOff ==
    /\ dsCount = 0 /\ dsInitial = 0 /\ upc = "off" /\ ureqs = << >> /\ ulog = << >>

WaiterOff ==
    /\ wTimeout = 0 /\ wNow = 0 /\ wDeadline = 0 /\ wpc = "off"
    /\ wLog = << >> /\ wResult = "running"

\* ------------------------------------------------------------------------
\* handler(event, context)
\* ------------------------------------------------------------------------

\* a backend call: the operation, its locator and loop position (dashboard
\* calls only) and the answer it got
Call(op, uri, i, answer) ==
    [op |-> op, uri |-> uri, i |-> i, Bucket |-> None, Key |-> None, answer |-> answer]

\* event.get('RequestType', 'Create')
RequestTypeOf(ev) == IF ev.RequestType = None THEN "Create" ELSE ev.RequestType

\* request_type in ('Create', 'Update')
Provisions(ev) == RequestTypeOf(ev) \in {"Create", "Update"}

HandlerInit ==
    /\ event \in Events
    /\ env \in Environments
    /\ pc = "entry" /\ uris = << >> /\ idx = 1 /\ body = None /\ exc = None
    /\ raises = << >> /\ calls = << >> /\ callbacks = << >> /\ result = "running"

\* an exception raised at `at` leaves the try block: control moves to the
\* except clause (n: backend calls issued when it was raised)
Raise(at, msg, n) ==
    /\ exc' = msg
    /\ pc' = "except"
    /\ raises' = Append(raises, [at |-> at, msg |-> msg, ncalls |-> n])

NoRaise == exc' = exc /\ raises' = raises

\* lines 92-94: read the request type and branch
Dispatch ==
    /\ pc = "entry"
    /\ pc' = IF Provisions(event) THEN "environ" ELSE "delete"
    /\ UNCHANGED << event, env, uris, idx, body, exc, raises, calls, callbacks, result >>
    /\ UNCHANGED << uvars, wvars >>

\* lines 95-102: environment lookups (KeyError on a missing required key)
ReadEnvironment ==
    /\ pc = "environ"
    /\ IF env.missing # None
          THEN Raise("environ", KeyErrorMessage(env.missing), Len(calls))
          ELSE pc' = "api_key" /\ NoRaise
    /\ UNCHANGED << event, env, uris, idx, body, calls, callbacks, result >>
    /\ UNCHANGED << uvars, wvars >>

\* lines 105-111: grafana.create_workspace_api_key
CreateApiKey ==
    /\ pc = "api_key"
    /\ \/ /\ calls' = Append(calls, Call("create_key", None, 0, "key"))
          /\ pc' = "ds_put" /\ NoRaise
       \/ /\ calls' = Append(calls, Call("create_key", None, 0, "error"))
          /\ \E m \in ApiKeyErrors : Raise("api_key", m, Len(calls) + 1)
    /\ UNCHANGED << event, env, uris, idx, body, callbacks, result >>
    /\ UNCHANGED << uvars, wvars >>

\* lines 61-68 of ensure_prom_datasource, called at line 114: the update PUT
DatasourcePut ==
    /\ pc = "ds_put"
    /\ \E r \in HttpResponses :
          /\ calls' = Append(calls, Call("ds_put", None, 0, r))
          /\ IF ~UrlopenRaises(r)
                THEN pc' = "loop" /\ NoRaise
                     /\ uris' = DashboardUris(env.DASHBOARD_URIS)
             ELSE IF FallsBackToCreate(r)
                THEN pc' = "ds_post" /\ NoRaise /\ uris' = uris
             ELSE Raise("ds_put", UrlopenMessage(r), Len(calls) + 1) /\ uris' = uris
    /\ UNCHANGED << event, env, idx, body, callbacks, result >>
    /\ UNCHANGED << uvars, wvars >>

\* lines 70-72 of ensure_prom_datasource: the create POST
DatasourcePost ==
    /\ pc = "ds_post"
    /\ \E r \in HttpResponses :
          /\ calls' = Append(calls, Call("ds_post", None, 0, r))
          /\ IF ~UrlopenRaises(r)
                THEN pc' = "loop" /\ NoRaise
                     /\ uris' = DashboardUris(env.DASHBOARD_URIS)
                ELSE Raise("ds_post", UrlopenMessage(r), Len(calls) + 1) /\ uris' = uris
    /\ UNCHANGED << event, env, idx, body, callbacks, result >>
    /\ UNCHANGED << uvars, wvars >>

\* lines 117-119 with get_dashboard_json (lines 31-38): next locator
GetDashboardJson ==
    /\ pc = "loop"
    /\ idx <= Len(uris)
    /\ LET uri == uris[idx] IN
       IF SkipsLocator(uri)
          THEN \* returns None: `if body` is false, next iteration
               /\ body' = None /\ idx' = idx + 1
               /\ UNCHANGED << pc, exc, raises, calls >>
          ELSE LET get == [op |-> "fetch", uri |-> uri, i |-> idx,
                           Bucket |-> LocatorBucket(uri), Key |-> LocatorKey(uri),
                           answer |-> None]
               IN
               \/ /\ calls' = Append(calls, get)
                  /\ Raise("fetch", GetObjectError, Len(calls) + 1) /\ UNCHANGED << body, idx >>
               \/ \E b \in ObjectBodies :
                        /\ calls' = Append(calls, [get EXCEPT !.answer = b])
                        /\ body' = b
                        /\ NoRaise
                        /\ IF Falsy(b)
                              THEN pc' = "loop" /\ idx' = idx + 1
                              ELSE pc' = "import" /\ idx' = idx
    /\ UNCHANGED << event, env, uris, callbacks, result >>
    /\ UNCHANGED << uvars, wvars >>

\* line 120 with import_dashboard (lines 75-88)
ImportDashboard ==
    /\ pc = "import"
    /\ IF ~JsonLoads(body)
          THEN /\ calls' = Append(calls, Call("import", uris[idx], idx, "JSONDecodeError"))
               /\ Raise("import", JsonError, Len(calls) + 1) /\ idx' = idx
          ELSE \E r \in HttpResponses :
                  /\ calls' = Append(calls, Call("import", uris[idx], idx, r))
                  /\ IF UrlopenRaises(r)
                        THEN Raise("import", UrlopenMessage(r), Len(calls) + 1) /\ idx' = idx
                        ELSE pc' = "loop" /\ idx' = idx + 1 /\ NoRaise
    /\ UNCHANGED << event, env, uris, body, callbacks, result >>
    /\ UNCHANGED << uvars, wvars >>

\* send_cfn_response(event, context, status, data, reason) called at `at`;
\* `ok` and `failed` are the positions after a return and after a raise
SendCfnResponse(at, status, data, reason, ok, failed) ==
    IF CfnResponseSkipped(event)
       THEN pc' = ok /\ UNCHANGED << callbacks, exc, raises >>
       ELSE \E r \in HttpResponses :
               /\ callbacks' = Append(callbacks, CfnRequest(event, status, data, reason, r))
               /\ IF UrlopenRaises(r)
                     THEN /\ pc' = failed
                          /\ exc' = UrlopenMessage(r)
                          /\ raises' = Append(raises, [at |-> at, msg |-> UrlopenMessage(r),
                                                       ncalls |-> Len(calls)])
                     ELSE pc' = ok /\ NoRaise

\* line 122: the loop is exhausted, report SUCCESS
ReportProvisioned ==
    /\ pc = "loop"
    /\ idx > Len(uris)
    /\ SendCfnResponse("callback", "SUCCESS", "Provisioned", None, "return", "except")
    /\ UNCHANGED << event, env, uris, idx, body, calls, result >>
    /\ UNCHANGED << uvars, wvars >>

\* line 125: Delete, nothing to clean up
ReportDeleted ==
    /\ pc = "delete"
    /\ SendCfnResponse("callback", "SUCCESS", "Deleted", None, "return", "except")
    /\ UNCHANGED << event, env, uris, idx, body, calls, result >>
    /\ UNCHANGED << uvars, wvars >>

\* lines 126-127: except Exception as e: report FAILED with str(e)
ReportFailed ==
    /\ pc = "except"
    /\ SendCfnResponse("except", "FAILED", None, exc, "return", "escape")
    /\ UNCHANGED << event, env, uris, idx, body, calls, result >>
    /\ UNCHANGED << uvars, wvars >>

\* handler returns None
Return ==
    /\ pc = "return"
    /\ pc' = "done" /\ result' = "returned"
    /\ UNCHANGED << event, env, uris, idx, body, exc, raises, calls, callbacks >>
    /\ UNCHANGED << uvars, wvars >>

\* an exception raised inside the except clause leaves handler
Escape ==
    /\ pc = "escape"
    /\ pc' = "done" /\ result' = "raised"
    /\ UNCHANGED << event, env, uris, idx, body, exc, raises, calls, callbacks >>
    /\ UNCHANGED << uvars, wvars >>

HandlerNext ==
    \/ Dispatch
    \/ ReadEnvironment
    \/ CreateApiKey
    \/ DatasourcePut
    \/ DatasourcePost
    \/ GetDashboardJson
    \/ ImportDashboard
    \/ ReportProvisioned
    \/ ReportDeleted
    \/ ReportFailed
    \/ Return
    \/ Escape

Init == HandlerInit /\ UpsertOff /\ WaiterOff
Next == HandlerNext
Spec == Init /\ [][Next]_vars

\* ------------------------------------------------------------------------
\* ensure_prom_datasource called repeatedly against one Grafana backend
\* ------------------------------------------------------------------------

MaxCalls == 3

\* Grafana's answer to PUT /api/datasources/uid/prom
BackendPut(ds) == IF ds > 0 THEN 200 ELSE 404

\* Grafana's answer to POST /api/datasources (a uid is unique: 409 on a clash)
BackendPost(ds) == IF ds = 0 THEN 200 ELSE 409

\* answers that do not reflect the data source's existence
PutFaults == {400, 401, 500, NoResponse}
PostFaults == {500, NoResponse}

Request(method, answer, fault) == [method |-> method, answer |-> answer, fault |-> fault]

\* ensure_prom_datasource is left, by return or by an exception
UpsertFinish(reqs, res, msg) ==
    /\ ulog' = Append(ulog, [reqs |-> reqs, result |-> res, msg |-> msg])
    /\ ureqs' = << >>
    /\ upc' = IF Len(ulog') < MaxCalls THEN "put" ELSE "done"

UpsertInit ==
    /\ dsCount \in {0, 1}
    /\ dsInitial = dsCount
    /\ upc = "put" /\ ureqs = << >> /\ ulog = << >>

\* lines 61-68: try the update by uid
UpsertPut ==
    /\ upc = "put"
    /\ \E r \in {BackendPut(dsCount)} \cup PutFaults :
          LET reqs == Append(ureqs, Request("PUT", r, r # BackendPut(dsCount))) IN
          IF ~UrlopenRaises(r)
             THEN UpsertFinish(reqs, "returned", None)
          ELSE IF FallsBackToCreate(r)
             THEN upc' = "post" /\ ureqs' = reqs /\ ulog' = ulog
          ELSE UpsertFinish(reqs, "raised", UrlopenMessage(r))
    /\ UNCHANGED << dsCount, dsInitial >>
    /\ UNCHANGED << hvars, wvars >>

\* lines 70-72: create
UpsertPost ==
    /\ upc = "post"
    /\ \E r \in {BackendPost(dsCount)} \cup PostFaults :
          LET reqs == Append(ureqs, Request("POST", r, r # BackendPost(dsCount))) IN
          /\ dsCount' = IF r = 200 THEN dsCount + 1 ELSE dsCount
          /\ IF ~UrlopenRaises(r)
                THEN UpsertFinish(reqs, "returned", None)
                ELSE UpsertFinish(reqs, "raised", UrlopenMessage(r))
    /\ UNCHANGED dsInitial
    /\ UNCHANGED << hvars, wvars >>

UpsertNext == UpsertPut \/ UpsertPost

InitUpsert == HandlerOff /\ UpsertInit /\ WaiterOff
NextUpsert == UpsertNext
SpecUpsert == InitUpsert /\ [][NextUpsert]_vars

\* ------------------------------------------------------------------------
\* wait_for_grafana_ready(timeout_seconds)
\* ------------------------------------------------------------------------

MaxTimeout == 5
MaxRequestTime == 2
MaxOversleep == 1

\* time.sleep(2)
PollInterval == 2

\* answers of GET /api/health
HealthResponses == {200, 204, 503, NoResponse}

\* variant of HealthReady that accepts any success status
HealthReadyAny2xx(r) == r \in 200..299

\* resp.status == 200
HealthReady(r) == r = 200

WaiterInit ==
    /\ wTimeout \in 0..MaxTimeout
    /\ wNow = 0
    /\ wDeadline = wNow + wTimeout
    /\ wpc = "check" /\ wLog = << >> /\ wResult = "running"

\* line 20 and line 28: the loop condition, TimeoutError once it is false
WaitCheck ==
    /\ wpc = "check"
    /\ IF wNow < wDeadline
          THEN wpc' = "request" /\ wResult' = wResult
          ELSE wpc' = "done" /\ wResult' = "TimeoutError"
    /\ UNCHANGED << wTimeout, wNow, wDeadline, wLog >>
    /\ UNCHANGED << hvars, uvars >>

\* lines 21-26: one health request, any exception swallowed
WaitRequest ==
    /\ wpc = "request"
    /\ \E r \in HealthResponses, d \in 0..MaxRequestTime :
          /\ wNow' = wNow + d
          /\ wLog' = Append(wLog, r)
          /\ IF ~UrlopenRaises(r) /\ HealthReady(r)
                THEN wpc' = "done" /\ wResult' = "returned"
                ELSE wpc' = "sleep" /\ wResult' = wResult
    /\ UNCHANGED << wTimeout, wDeadline >>
    /\ UNCHANGED << hvars, uvars >>

\* line 27: sleep for at least the poll interval
WaitSleep ==
    /\ wpc = "sleep"
    /\ \E d \in PollInterval..(PollInterval + MaxOversleep) : wNow' = wNow + d
    /\ wpc' = "check"
    /\ UNCHANGED << wTimeout, wDeadline, wLog, wResult >>
    /\ UNCHANGED << hvars, uvars >>

WaiterNext == WaitCheck \/ WaitRequest \/ WaitSleep

InitWait == HandlerOff /\ UpsertOff /\ WaiterInit
NextWait == WaiterNext
SpecWait == InitWait /\ [][NextWait]_vars
\* the interpreter keeps running the call until it returns or raises
FairSpecWait == SpecWait /\ WF_vars(NextWait)

\* ------------------------------------------------------------------------
\* Properties of the handler (checked under Spec)
\* ------------------------------------------------------------------------

HasResponseURL == ~Falsy(event.ResponseURL)

\* the steps of the Create/Update branch that talk to a backend
ProvisioningSteps == {"api_key", "ds_put", "ds_post", "fetch", "import"}

\* the first exception of this invocation came from a provisioning step
StepRaised == raises # << >> /\ raises[1].at \in ProvisioningSteps

\* a locator of the form s3://bucket/key
IsS3Locator(u) ==
    /\ StartsWith(u, S3_SCHEME)
    /\ LET rest == SubSeq(u, Len(S3_SCHEME) + 1, Len(u))
           cut == FindFirst(rest, C_SLASH)
       IN  cut > 1 /\ cut < Len(rest)

\* the fetch and import calls, in the order they were issued
DashCalls == SelectSeq(calls, LAMBDA c : c.op \in {"fetch", "import"})

\* the non-blank entries of the configured list, in configured order
Configured == DashboardUris(env.DASHBOARD_URIS)

\* C1: handler never raises out of its entry point, whatever step fails,
\* the callback PUT included.
HandlerNeverRaises == result # "raised"

\* C2: for an event carrying a ResponseURL, every finished execution has
\* issued exactly one callback PUT.
ExactlyOneCallbackPut ==
    (pc = "done" /\ HasResponseURL) => Len(callbacks) = 1

\* what C3 promises once a provisioning step has raised: one callback, FAILED,
\* whose Reason is the exception's message, and no backend call after the
\* call that raised
FailedCallbackAfterStep ==
    /\ Len(calls) = raises[1].ncalls
    /\ Len(callbacks) <= 1
    /\ pc = "done" =>
          /\ Len(callbacks) = 1
          /\ callbacks[1].Status = "FAILED"
          /\ raises[1].msg # "" => callbacks[1].Reason = raises[1].msg

\* C3 as stated: for a Create event, a raising provisioning step gives exactly
\* one callback, FAILED, carrying the message, and nothing is fetched or
\* imported afterwards.
CreateFailureReportsFailed_Stated ==
    (RequestTypeOf(event) = "Create" /\ StepRaised) => FailedCallbackAfterStep

\* C3 amended: the same for a Create event that carries a ResponseURL.
CreateFailureReportsFailed ==
    (RequestTypeOf(event) = "Create" /\ HasResponseURL /\ StepRaised)
        => FailedCallbackAfterStep

\* an import failed on the first of two locators and was reported
CreateFailureReportsFailed_Witness ==
    /\ pc = "done" /\ event.RequestType = "Create" /\ HasResponseURL
    /\ StepRaised /\ raises[1].at = "import" /\ raises[1].msg # ""
    /\ idx < Len(uris)
    /\ callbacks[1].Status = "FAILED"

\* C4: a Delete event (carrying a ResponseURL) produces exactly one callback,
\* SUCCESS, and no backend call.
DeleteOneSuccessNoBackend ==
    (pc = "done" /\ event.RequestType = "Delete" /\ HasResponseURL) =>
        /\ Len(callbacks) = 1
        /\ callbacks[1].Status = "SUCCESS"
        /\ calls = << >>

\* C7: a locator that is not of the form s3://bucket/key is never handed to
\* the object storage.
MalformedLocatorNeverFetched ==
    \A k \in 1..Len(calls) : calls[k].op = "fetch" => IsS3Locator(calls[k].uri)

\* fetch(u1), import(u1), fetch(u2), import(u2), ... over every entry of us
FullPlan(us) ==
    [k \in 1..(2 * Len(us)) |->
        << IF k % 2 = 1 THEN "fetch" ELSE "import", us[(k + 1) \div 2] >>]

\* every object fetched so far had a non-empty body
NoEmptyObject ==
    \A k \in 1..Len(calls) : calls[k].op = "fetch" => calls[k].answer # EmptyBody

SuccessOnlyAfterProvisioning ==
    /\ \A k \in 1..Len(calls) :
          /\ calls[k].op = "create_key" <=> k = 1
          /\ k > 1 => calls[1].answer = "key"
          /\ calls[k].op \in {"fetch", "import"} =>
                \E n \in 1..(k - 1) :
                    calls[n].op \in {"ds_put", "ds_post"} /\ calls[n].answer = 200
    /\ (Provisions(event) /\ \E k \in 1..Len(callbacks) : callbacks[k].Status = "SUCCESS") =>
          /\ callbacks[1].Status = "SUCCESS"
          /\ raises = << >> \/ raises[1].at = "callback"
          /\ \E n \in 1..Len(calls) :
                calls[n].op \in {"ds_put", "ds_post"} /\ calls[n].answer = 200
          /\ \A j \in 1..Len(Configured) :
                IsS3Locator(Configured[j]) =>
                    /\ \E n \in 1..Len(calls) : calls[n].op = "fetch" /\ calls[n].i = j
                    /\ \E n \in 1..Len(calls) :
                          calls[n].op = "import" /\ calls[n].i = j /\ calls[n].answer = 200

\* ------------------------------------------------------------------------
\* Properties of ensure_prom_datasource (checked under SpecUpsert)
\* ------------------------------------------------------------------------

Methods(reqs) == [k \in 1..Len(reqs) |-> reqs[k].method]

\* every answer so far reflected whether the data source exists
NoFaults ==
    /\ \A k \in 1..Len(ulog) : \A n \in 1..Len(ulog[k].reqs) : ~ulog[k].reqs[n].fault
    /\ \A n \in 1..Len(ureqs) : ~ureqs[n].fault

\* C5: against a backend that answers the PUT with 404 exactly while 'prom'
\* does not exist, starting without it: the first call creates it through the
\* POST fallback, every later call succeeds on the PUT alone, no call fails,
\* and exactly one data source 'prom' exists after any number of calls.
UpsertIdempotent ==
    (dsInitial = 0 /\ NoFaults) =>
        /\ \A k \in 1..Len(ulog) :
              /\ ulog[k].result = "returned"
              /\ Methods(ulog[k].reqs) = IF k = 1 THEN << "PUT", "POST" >> ELSE << "PUT" >>
        /\ dsCount = IF ulog = << >> THEN 0 ELSE 1
        /\ ureqs # << >> => ulog = << >>

\* two calls in a row were made against the initially empty backend
UpsertIdempotent_Witness ==
    /\ dsInitial = 0 /\ NoFaults
    /\ Len(ulog) >= 2
    /\ Len(ulog[1].reqs) = 2 /\ Len(ulog[2].reqs) = 1

\* C9: the update PUT always comes first; the create POST is issued if and
\* only if the PUT failed with 404 or 400; a successful PUT ends the call
\* without a POST; any other PUT failure propagates without a POST.
UpdateFirstCreateOnFallback ==
    /\ \A k \in 1..Len(ulog) :
          LET c == ulog[k] IN
          /\ c.reqs # << >> /\ c.reqs[1].method = "PUT"
          /\ Len(c.reqs) <= 2
          /\ Len(c.reqs) = 2 <=> c.reqs[1].answer \in {404, 400}
          /\ Len(c.reqs) = 2 => c.reqs[2].method = "POST"
          /\ c.reqs[1].answer = 200 => c.result = "returned"
          /\ c.reqs[1].answer \notin {200, 404, 400} =>
                c.result = "raised" /\ c.msg = UrlopenMessage(c.reqs[1].answer)
    /\ ureqs # << >> =>
          /\ upc = "post"
          /\ Methods(ureqs) = << "PUT" >>
          /\ ureqs[1].answer \in {404, 400}

\* one call fell back to the POST after a 400 and another one propagated a 500
UpdateFirstCreateOnFallback_Witness ==
    /\ \E k \in 1..Len(ulog) :
          ulog[k].reqs[1].answer = 400 /\ Methods(ulog[k].reqs) = << "PUT", "POST" >>
    /\ \E k \in 1..Len(ulog) :
          ulog[k].reqs[1].answer = 500 /\ ulog[k].result = "raised"
    /\ \E k \in 1..Len(ulog) :
          ulog[k].reqs[1].answer = 200 /\ Len(ulog[k].reqs) = 1

\* ------------------------------------------------------------------------
\* Properties of wait_for_grafana_ready (checked under FairSpecWait)
\* ------------------------------------------------------------------------

Seen200 == \E k \in 1..Len(wLog) : wLog[k] = 200

\* what holds of the waiter at every moment
WaiterSafe ==
    /\ wResult \in {"running", "returned", "TimeoutError"}
    /\ wResult = "returned" <=> Seen200
    /\ wResult = "returned" => wLog[Len(wLog)] = 200
    /\ wResult = "TimeoutError" => wNow >= wTimeout
    /\ wpc = "done" <=> wResult # "running"

\* C6: the waiter returns normally exactly when a health check answered 200,
\* which can only be one started before the deadline; otherwise it ends with
\* TimeoutError, and only once the timeout has elapsed since the call began;
\* request errors and non-200 answers are never surfaced; the call always
\* ends.
WaiterReturnsOrTimesOut == []WaiterSafe /\ <>(wpc = "done")

\* the waiter timed out after an error, an error status and a non-200 success
WaiterReturnsOrTimesOut_Witness ==
    /\ wResult = "TimeoutError"
    /\ wTimeout = MaxTimeout
    /\ \E k \in 1..Len(wLog) : wLog[k] = NoResponse
    /\ \E k \in 1..Len(wLog) : wLog[k] \in {204, 503}

====
